---- MODULE Spec2Model ----
(***************************************************************************)
(* MicroCVM-rs: the MicroCVMCpu of src/src/cpu.rs as a state machine.      *)
(*                                                                         *)
(* The state is the struct MicroCVMCpu (memory, video_memory, registers,   *)
(* sp, pc, flags).  The operations are read_memory_from_file (the program  *)
(* load) and execute_instruction (one step: create_opcode, then the match  *)
(* on the opcode type).  A Vec is modelled by its length and its cells     *)
(* that differ from the fill value, so that vec![0; FREE_MEMORY] keeps its *)
(* real length.                                                            *)
(***************************************************************************)
EXTENDS Integers, Sequences, FiniteSets, TLC

VARIABLES
    memory,          \* MicroCVMCpu.memory: Vec<u8>
    video_memory,    \* MicroCVMCpu.video_memory: Vec<Color>
    registers,       \* MicroCVMCpu.registers: [u8; 8]
    sp,              \* MicroCVMCpu.sp
    pc,              \* MicroCVMCpu.pc
    flags,           \* MicroCVMCpu.flags
    overflow_checks, \* the build: TRUE panics on u8 overflow, FALSE wraps
    lastOp,          \* "none" | "load" | "step": the last call made
    outcome,         \* how the last call ended
    ret,             \* the value the last load returned (Ok(read)), else -1
    loaded,          \* the bytes the last load read from its file
    shorter,         \* the last load's file was shorter than the one loaded before it
    before,          \* the CPU state when the last step, or the last failed load, started
    decoded,         \* the Opcode create_opcode returned in the last step
    after_decode,    \* the CPU state when create_opcode returned in the last step
    hlt_executed,    \* some step so far has executed a Hlt
    loads,           \* number of calls of read_memory_from_file so far
    steps,           \* number of calls of execute_instruction so far
    app_size,        \* App.width and App.height
    app_video_memory, \* App.video_memory: Vec<u8>
    app_pixels,      \* App.pixels: whether it is Some, and its frame
    render_outcome,  \* how the last call of App::render ended
    frame_before     \* the frame when the last call of App::render started

vars == <<memory, video_memory, registers, sp, pc, flags, overflow_checks,
          lastOp, outcome, ret, loaded, shorter, before, decoded,
          after_decode,
          hlt_executed,
          loads, steps,
          app_size, app_video_memory, app_pixels, render_outcome,
          frame_before>>

app == <<app_size, app_video_memory, app_pixels, render_outcome, frame_before>>

hist == <<overflow_checks, lastOp, outcome, ret, loaded, shorter, before,
          decoded, after_decode, hlt_executed, loads, steps>>

cpu == <<memory, video_memory, registers, sp, pc, flags>>

----------------------------------------------------------------------------
(* Program constants *)

FREE_MEMORY == 2048 * 1024
VIDEO_MEMORY == 1728 * 1024

Byte == 0 .. 255
RegIndex == 0 .. 7

(* Bounds of the model *)

\* calls of read_memory_from_file in one run
MaxLoads == 2

\* calls of execute_instruction in one run
MaxSteps == 2

\* The opcode bytes programs are made of: the eleven bytes of the table and
\* bytes outside it (0x00, and the neighbours 0x0A and 0xFE of the table).
OpBytes == {1, 2, 3, 4, 5, 6, 7, 8, 9, 144, 255, 0, 10, 254}

\* The operand bytes: register indices (0, 7) and bytes >= 8 (8, 255).
ArgBytes == {0, 7, 8, 255}

\* The files a load can read: an instruction, or a truncated one, or nothing.
Programs ==
    {<< >>}
      \cup {<<o>> : o \in OpBytes}
      \cup {<<o, a>> : o \in OpBytes, a \in ArgBytes}
      \cup {<<o, a, b>> : o \in OpBytes, a \in ArgBytes, b \in ArgBytes}

\* The files whose read fails part-way
FailingFiles == {<<7, 0>>, <<6, 0, 8>>}

\* longest video buffer handed to the display adapter
MaxVideoLen == 5

\* The bytes of a video buffer, and the buffers
VideoBytes == {0, 255}
VideoBuffers ==
    UNION {[1 .. n -> VideoBytes] : n \in 0 .. MaxVideoLen}

\* The window sizes: a frame of 4 bytes, and one of 8
WindowSizes == {<<1, 1>>, <<2, 1>>}

----------------------------------------------------------------------------
(* Vec<T>: len cells; data holds the cells that differ from the fill value *)

NoCells == [a \in {} |-> 0]

VecFilled(n) == [len |-> n, data |-> NoCells]

VecGet(v, a) == IF a \in DOMAIN v.data THEN v.data[a] ELSE 0

InBounds(v, a) == a < v.len

VecSet(v, a, x) ==
    LET dom == IF x = 0 THEN DOMAIN v.data \ {a} ELSE DOMAIN v.data \cup {a}
    IN  [len |-> v.len,
         data |-> [i \in dom |-> IF i = a THEN x ELSE v.data[i]]]

VecClear(v) == [len |-> 0, data |-> NoCells]

\* Write for Vec<u8>: the bytes are appended
VecExtend(v, bytes) ==
    LET new == {v.len + i - 1 : i \in {j \in 1 .. Len(bytes) : bytes[j] # 0}}
    IN  [len |-> v.len + Len(bytes),
         data |-> [i \in DOMAIN v.data \cup new |->
                     IF i \in DOMAIN v.data THEN v.data[i]
                     ELSE bytes[i - v.len + 1]]]

----------------------------------------------------------------------------
(* u8 arithmetic: the exact result, and whether it leaves 0..255 *)

U8Add(a, b) == [overflow |-> a + b > 255, value |-> (a + b) % 256]

U8Sub(a, b) == [overflow |-> a < b, value |-> (a - b + 256) % 256]

U8Mul(a, b) == [overflow |-> a * b > 255, value |-> (a * b) % 256]

----------------------------------------------------------------------------
(* Decoding *)

\* The table with one more entry: 0x0A taken for an instruction
OpcodeType_try_from_extra(value) ==
    CASE value = 1   -> "Load"
      [] value = 2   -> "Store"
      [] value = 3   -> "Add"
      [] value = 4   -> "Sub"
      [] value = 5   -> "Jmp"
      [] value = 6   -> "Mov"
      [] value = 7   -> "Inc"
      [] value = 8   -> "Div"
      [] value = 9   -> "Mul"
      [] value = 10  -> "Inc"
      [] value = 255 -> "Hlt"
      [] value = 144 -> "Nop"
      [] OTHER       -> "InvalidOpcode"

\* impl TryFrom<u8> for OpcodeType
OpcodeType_try_from(value) ==
    CASE value = 1   -> "Load"
      [] value = 2   -> "Store"
      [] value = 3   -> "Add"
      [] value = 4   -> "Sub"
      [] value = 5   -> "Jmp"
      [] value = 6   -> "Mov"
      [] value = 7   -> "Inc"
      [] value = 8   -> "Div"
      [] value = 9   -> "Mul"
      [] value = 255 -> "Hlt"
      [] value = 144 -> "Nop"
      [] OTHER       -> "InvalidOpcode"

\* OpcodeType::try_from(opcode_byte).unwrap_or(OpcodeType::Nop)
OpcodeTypeOrNop(opcode_byte) ==
    IF OpcodeType_try_from(opcode_byte) = "InvalidOpcode"
    THEN "Nop"
    ELSE OpcodeType_try_from(opcode_byte)

\* The operand counts with Jmp given its one operand
get_opcode_argument_count_jmp(opcode_type) ==
    CASE opcode_type = "Inc" -> 1
      [] opcode_type = "Jmp" -> 1
      [] opcode_type = "Mov" -> 2
      [] opcode_type = "Add" -> 2
      [] opcode_type = "Sub" -> 2
      [] opcode_type = "Div" -> 2
      [] opcode_type = "Mul" -> 2
      [] OTHER               -> 0

get_opcode_argument_count(opcode_type) ==
    CASE opcode_type = "Inc" -> 1
      [] opcode_type = "Mov" -> 2
      [] opcode_type = "Add" -> 2
      [] opcode_type = "Sub" -> 2
      [] opcode_type = "Div" -> 2
      [] opcode_type = "Mul" -> 2
      [] OTHER               -> 0

NoArg == [tag |-> "None", v |-> 0]

\* if arg < 8 { Register(..) } else { Address(arg) }, for arg1 and for arg2
ClassifyArg(arg) ==
    IF arg < 8 THEN [tag |-> "Register", v |-> arg]
               ELSE [tag |-> "Address", v |-> arg]

\* Opcode::empty()
Opcode_empty ==
    [status |-> "ok", opcode_type |-> "Nop", argument_count |-> 0,
     arg1 |-> NoArg, arg2 |-> NoArg]

\* self.memory[(self.pc + k) as usize]: the u8 sum, then the indexing
FetchArg(mem, p, k, chk) ==
    LET sum == U8Add(p, k)
    IN  IF sum.overflow /\ chk THEN [status |-> "panic_overflow", byte |-> 0]
        ELSE IF ~InBounds(mem, sum.value)
             THEN [status |-> "panic_index", byte |-> 0]
             ELSE [status |-> "ok", byte |-> VecGet(mem, sum.value)]

\* create_opcode: the Opcode at pc, or the panic that ends the decoding
create_opcode(mem, p, chk) ==
    IF ~InBounds(mem, p)
    THEN [Opcode_empty EXCEPT !.status = "panic_index"]
    ELSE
      LET ty == OpcodeTypeOrNop(VecGet(mem, p))
          n  == get_opcode_argument_count(ty)
          f1 == FetchArg(mem, p, 1, chk)
          f2 == FetchArg(mem, p, 2, chk)
          op0 == [Opcode_empty EXCEPT !.opcode_type = ty, !.argument_count = n]
      IN  IF n >= 1 /\ f1.status # "ok"
          THEN [op0 EXCEPT !.status = f1.status]
          ELSE
            LET op1 == IF n >= 1
                       THEN [op0 EXCEPT !.arg1 = ClassifyArg(f1.byte)]
                       ELSE op0
            IN  IF n >= 2 /\ f2.status # "ok"
                THEN [op1 EXCEPT !.status = f2.status]
                ELSE IF n >= 2
                     THEN [op1 EXCEPT !.arg2 = ClassifyArg(f2.byte)]
                     ELSE op1

----------------------------------------------------------------------------
(* Execution: the arms of the match in execute_instruction.  Each yields   *)
(* the registers, memory and pc the arm leaves, and "ok" or the panic that *)
(* ended it (a panic leaves the state as it was).                          *)

Effect(st, regs, mem, p) ==
    [status |-> st, registers |-> regs, memory |-> mem, pc |-> p]

IsReg(arg) == arg.tag = "Register"
IsAddr(arg) == arg.tag = "Address"

\* self.registers[dst] op= imm, for += -= *=
Arith(r, regs, mem, p, dst, chk) ==
    IF r.overflow /\ chk
    THEN Effect("panic_overflow", regs, mem, p)
    ELSE Effect("ok", [regs EXCEPT ![dst] = r.value], mem, p)

\* The Inc arm incrementing register 0 whatever its operand names
IncArm_r0(op, regs, mem, p, chk) ==
    IF IsReg(op.arg1)
    THEN Arith(U8Add(regs[0], 1), regs, mem, p, 0, chk)
    ELSE Effect("ok", regs, mem, p)

IncArm(op, regs, mem, p, chk) ==
    IF IsReg(op.arg1)
    THEN Arith(U8Add(regs[op.arg1.v], 1), regs, mem, p, op.arg1.v, chk)
    ELSE Effect("ok", regs, mem, p)

MovArm(op, regs, mem, p, chk) ==
    IF IsReg(op.arg1) /\ IsAddr(op.arg2)
    THEN Effect("ok", [regs EXCEPT ![op.arg1.v] = op.arg2.v], mem, p)
    ELSE Effect("ok", regs, mem, p)

AddArm(op, regs, mem, p, chk) ==
    IF IsReg(op.arg1) /\ IsAddr(op.arg2)
    THEN Arith(U8Add(regs[op.arg1.v], op.arg2.v), regs, mem, p, op.arg1.v, chk)
    ELSE Effect("ok", regs, mem, p)

SubArm(op, regs, mem, p, chk) ==
    IF IsReg(op.arg1) /\ IsAddr(op.arg2)
    THEN Arith(U8Sub(regs[op.arg1.v], op.arg2.v), regs, mem, p, op.arg1.v, chk)
    ELSE Effect("ok", regs, mem, p)

DivArm(op, regs, mem, p, chk) ==
    IF IsReg(op.arg1) /\ IsAddr(op.arg2)
    THEN IF op.arg2.v = 0
         THEN Effect("panic_div_zero", regs, mem, p)
         ELSE Effect("ok",
                     [regs EXCEPT ![op.arg1.v] = regs[op.arg1.v] \div op.arg2.v],
                     mem, p)
    ELSE Effect("ok", regs, mem, p)

MulArm(op, regs, mem, p, chk) ==
    IF IsReg(op.arg1) /\ IsAddr(op.arg2)
    THEN Arith(U8Mul(regs[op.arg1.v], op.arg2.v), regs, mem, p, op.arg1.v, chk)
    ELSE Effect("ok", regs, mem, p)

LoadArm(op, regs, mem, p, chk) ==
    IF IsReg(op.arg1) /\ IsAddr(op.arg2)
    THEN IF InBounds(mem, op.arg2.v)
         THEN Effect("ok",
                     [regs EXCEPT ![op.arg1.v] = VecGet(mem, op.arg2.v)], mem, p)
         ELSE Effect("panic_index", regs, mem, p)
    ELSE Effect("ok", regs, mem, p)

StoreArm(op, regs, mem, p, chk) ==
    IF IsAddr(op.arg1) /\ IsReg(op.arg2)
    THEN IF InBounds(mem, op.arg1.v)
         THEN Effect("ok", regs, VecSet(mem, op.arg1.v, regs[op.arg2.v]), p)
         ELSE Effect("panic_index", regs, mem, p)
    ELSE Effect("ok", regs, mem, p)

JmpArm(op, regs, mem, p, chk) ==
    IF IsAddr(op.arg1)
    THEN Effect("ok", regs, mem, op.arg1.v)
    ELSE Effect("ok", regs, mem, p)

NopArm(op, regs, mem, p, chk) == Effect("ok", regs, mem, p)

HltArm(op, regs, mem, p, chk) == Effect("ok", regs, mem, p)

\* match opcode.opcode_type { ... }
Execute(op, regs, mem, p, chk) ==
    CASE op.opcode_type = "Inc"   -> IncArm(op, regs, mem, p, chk)
      [] op.opcode_type = "Mov"   -> MovArm(op, regs, mem, p, chk)
      [] op.opcode_type = "Add"   -> AddArm(op, regs, mem, p, chk)
      [] op.opcode_type = "Sub"   -> SubArm(op, regs, mem, p, chk)
      [] op.opcode_type = "Div"   -> DivArm(op, regs, mem, p, chk)
      [] op.opcode_type = "Mul"   -> MulArm(op, regs, mem, p, chk)
      [] op.opcode_type = "Load"  -> LoadArm(op, regs, mem, p, chk)
      [] op.opcode_type = "Store" -> StoreArm(op, regs, mem, p, chk)
      [] op.opcode_type = "Jmp"   -> JmpArm(op, regs, mem, p, chk)
      [] op.opcode_type = "Nop"   -> NopArm(op, regs, mem, p, chk)
      [] op.opcode_type = "Hlt"   -> HltArm(op, regs, mem, p, chk)

\* create_opcode advancing pc past the opcode byte it fetched
create_opcode_self_advance(s) == [s EXCEPT !.pc = (s.pc + 1) % 256]

\* The fields of self when create_opcode(&mut self) returns, s being their
\* values when it was called: it assigns to none of them
create_opcode_self(s) == s

\* A step that records a condition in flags after an arithmetic opcode
ExecuteKeeps_flags(op, s) ==
    [sp |-> s.sp,
     flags |-> IF op.opcode_type \in {"Inc", "Add", "Sub", "Mul", "Div"}
               THEN 1 ELSE s.flags,
     video_memory |-> s.video_memory]

\* A step that takes the byte 0x02 (VideoOpcodeType::Clear) for a clear of
\* the video memory
ExecuteKeeps_video_clear(op, s) ==
    [sp |-> s.sp, flags |-> s.flags,
     video_memory |-> IF op.opcode_type = "Store"
                      THEN VecClear(s.video_memory) ELSE s.video_memory]

\* The fields no arm of the match assigns: sp, flags, video_memory
ExecuteKeeps(op, s) ==
    [sp |-> s.sp, flags |-> s.flags, video_memory |-> s.video_memory]

\* One call of execute_instruction from the CPU state s: decode, then execute
StepResult(s, chk) ==
    LET op == create_opcode(s.memory, s.pc, chk)
        d  == create_opcode_self(s)
    IN  [opcode |-> op,
         after_decode |-> d,
         effect |-> IF op.status # "ok"
                    THEN Effect(op.status, d.registers, d.memory, d.pc)
                    ELSE Execute(op, d.registers, d.memory, d.pc, chk),
         keeps |-> ExecuteKeeps(op, d)]

----------------------------------------------------------------------------
(* Program load: read_memory_from_file *)

\* The load without its clear(): the file is appended to the old contents
LoadFile_no_clear(mem, bytes) ==
    [memory |-> VecExtend(mem, bytes), read |-> Len(bytes)]

\* The load with the clear() after the copy
LoadFile_clear_last(mem, bytes) ==
    [memory |-> VecClear(VecExtend(mem, bytes)), read |-> Len(bytes)]

\* self.memory.clear(); io::copy(&mut file, &mut self.memory); Ok(read)
LoadFile(mem, bytes) ==
    [memory |-> VecExtend(VecClear(mem), bytes), read |-> Len(bytes)]

\* io::copy fails after k bytes were appended: the unwrap panics
LoadFilePartial(mem, bytes, k) ==
    VecExtend(VecClear(mem), SubSeq(bytes, 1, k))

----------------------------------------------------------------------------
(* The state machine *)

Panicked == outcome \in {"panic_index", "panic_overflow", "panic_div_zero",
                         "panic_io"}

\* The process is alive and the run may make another call
CanLoad == ~Panicked /\ loads < MaxLoads
CanStep == ~Panicked /\ steps < MaxSteps

Snapshot ==
    [registers |-> registers, pc |-> pc, sp |-> sp, flags |-> flags,
     memory |-> memory, video_memory |-> video_memory]

NoStep ==
    [registers |-> [i \in RegIndex |-> 0], pc |-> 0, sp |-> 0, flags |-> 0,
     memory |-> VecFilled(0), video_memory |-> VecFilled(0)]

\* App.pixels = None
NoPixels == [present |-> FALSE, frame |-> << >>]

\* MicroCVMCpu::empty(), and no display adapter yet: App::default()
Init ==
    /\ memory = VecFilled(FREE_MEMORY)
    /\ video_memory = VecFilled(VIDEO_MEMORY)
    /\ registers = [i \in RegIndex |-> 0]
    /\ sp = 0
    /\ pc = 0
    /\ flags = 0
    /\ overflow_checks \in BOOLEAN
    /\ lastOp = "none"
    /\ outcome = "ok"
    /\ ret = -1
    /\ loaded = << >>
    /\ shorter = FALSE
    /\ hlt_executed = FALSE
    /\ before = NoStep
    /\ decoded = Opcode_empty
    /\ after_decode = NoStep
    /\ loads = 0
    /\ steps = 0
    /\ app_size = <<0, 0>>
    /\ app_video_memory = << >>
    /\ app_pixels = NoPixels
    /\ render_outcome = "none"
    /\ frame_before = << >>

\* execute_instruction(&mut self)
execute_instruction ==
    /\ CanStep
    /\ LET r == StepResult(Snapshot, overflow_checks)
       IN  /\ decoded' = r.opcode
           /\ after_decode' = r.after_decode
           /\ sp' = r.keeps.sp
           /\ flags' = r.keeps.flags
           /\ video_memory' = r.keeps.video_memory
           /\ outcome' = r.effect.status
           /\ registers' = r.effect.registers
           /\ memory' = r.effect.memory
           /\ pc' = r.effect.pc
    /\ before' = Snapshot
    /\ lastOp' = "step"
    /\ ret' = -1
    /\ hlt_executed' = (hlt_executed \/ (outcome' = "ok" /\ decoded'.opcode_type = "Hlt"))
    /\ steps' = steps + 1
    /\ UNCHANGED <<overflow_checks, loaded, shorter, loads>>
    /\ UNCHANGED app

\* read_memory_from_file: File::open fails, the ? returns the error
read_memory_from_file_open_error ==
    /\ CanLoad
    /\ outcome' = "io_error"
    /\ lastOp' = "load"
    /\ ret' = -1
    /\ before' = Snapshot
    /\ decoded' = Opcode_empty
    /\ after_decode' = NoStep
    /\ loads' = loads + 1
    /\ UNCHANGED <<steps, hlt_executed>>
    /\ UNCHANGED app
    /\ UNCHANGED <<cpu, overflow_checks, loaded, shorter>>

\* read_memory_from_file: the file holds bytes and is read to its end
read_memory_from_file_ok ==
    /\ CanLoad
    /\ \E bytes \in Programs :
         /\ memory' = LoadFile(memory, bytes).memory
         /\ ret' = LoadFile(memory, bytes).read
         /\ loaded' = bytes
    /\ shorter' = (Len(loaded') < Len(loaded))
    /\ outcome' = "ok"
    /\ lastOp' = "load"
    /\ before' = NoStep
    /\ decoded' = Opcode_empty
    /\ after_decode' = NoStep
    /\ loads' = loads + 1
    /\ UNCHANGED <<steps, hlt_executed>>
    /\ UNCHANGED app
    /\ UNCHANGED <<video_memory, registers, sp, pc, flags, overflow_checks>>

\* read_memory_from_file: a read fails after k bytes, the unwrap panics
read_memory_from_file_read_error ==
    /\ CanLoad
    /\ \E bytes \in FailingFiles : \E k \in 0 .. Len(bytes) :
         memory' = LoadFilePartial(memory, bytes, k)
    /\ outcome' = "panic_io"
    /\ lastOp' = "load"
    /\ ret' = -1
    /\ before' = Snapshot
    /\ decoded' = Opcode_empty
    /\ after_decode' = NoStep
    /\ loads' = loads + 1
    /\ UNCHANGED <<steps, hlt_executed>>
    /\ UNCHANGED app
    /\ UNCHANGED <<video_memory, registers, sp, pc, flags, overflow_checks,
                   loaded, shorter>>

Next ==
    \/ execute_instruction
    \/ read_memory_from_file_open_error
    \/ read_memory_from_file_ok
    \/ read_memory_from_file_read_error

Spec == Init /\ [][Next]_vars

----------------------------------------------------------------------------
(* The display adapter: App of render.rs *)

\* Pixels::new(width, height, ..): a frame of width * height * 4 zero bytes
NewFrame(size) == [i \in 1 .. (size[1] * size[2] * 4) |-> 0]

\* App::render, pixels being Some: the length check, then copy_from_slice,
\* which panics unless the two lengths are equal
RenderFrame(frame, video) ==
    IF Len(video) < Len(frame)
    THEN [status |-> "size_error", frame |-> frame]
    ELSE IF Len(video) # Len(frame)
         THEN [status |-> "panic_copy", frame |-> frame]
         ELSE [status |-> "rendered", frame |-> video]

RenderPanicked == render_outcome \in {"panic_copy", "panic_render"}

\* App::new(width, height, video_memory), beside a CPU just constructed
InitRender ==
    /\ memory = VecFilled(FREE_MEMORY)
    /\ video_memory = VecFilled(VIDEO_MEMORY)
    /\ registers = [i \in RegIndex |-> 0]
    /\ sp = 0
    /\ pc = 0
    /\ flags = 0
    /\ overflow_checks \in BOOLEAN
    /\ lastOp = "none"
    /\ outcome = "ok"
    /\ ret = -1
    /\ loaded = << >>
    /\ shorter = FALSE
    /\ hlt_executed = FALSE
    /\ before = NoStep
    /\ decoded = Opcode_empty
    /\ after_decode = NoStep
    /\ loads = 0
    /\ steps = 0
    /\ app_size \in WindowSizes
    /\ app_video_memory \in VideoBuffers
    /\ app_pixels = NoPixels
    /\ render_outcome = "none"
    /\ frame_before = << >>

\* ApplicationHandler::resumed: the window and its Pixels are created
resumed ==
    /\ ~RenderPanicked
    /\ ~app_pixels.present
    /\ app_pixels' = [present |-> TRUE, frame |-> NewFrame(app_size)]
    /\ UNCHANGED <<app_size, app_video_memory, render_outcome, frame_before>>
    /\ UNCHANGED <<cpu, hist>>

\* App::render(self.video_memory.clone()), pixels.render() succeeding
render ==
    /\ ~RenderPanicked
    /\ frame_before' = app_pixels.frame
    /\ IF app_pixels.present
       THEN LET r == RenderFrame(app_pixels.frame, app_video_memory)
            IN  /\ render_outcome' = r.status
                /\ app_pixels' = [app_pixels EXCEPT !.frame = r.frame]
       ELSE /\ render_outcome' = "no_pixels"
            /\ UNCHANGED app_pixels
    /\ UNCHANGED <<app_size, app_video_memory>>
    /\ UNCHANGED <<cpu, hist>>

\* App::render, the frame copied and pixels.render() failing: unwrap panics
render_surface_error ==
    /\ ~RenderPanicked
    /\ app_pixels.present
    /\ RenderFrame(app_pixels.frame, app_video_memory).status = "rendered"
    /\ frame_before' = app_pixels.frame
    /\ app_pixels' = [app_pixels EXCEPT
                        !.frame = RenderFrame(app_pixels.frame,
                                              app_video_memory).frame]
    /\ render_outcome' = "panic_render"
    /\ UNCHANGED <<app_size, app_video_memory>>
    /\ UNCHANGED <<cpu, hist>>

NextRender ==
    \/ resumed
    \/ render
    \/ render_surface_error

SpecRender == InitRender /\ [][NextRender]_vars

----------------------------------------------------------------------------
(* Properties *)

\* The opcode bytes of the table in impl TryFrom<u8> for OpcodeType
TableBytes == {1, 2, 3, 4, 5, 6, 7, 8, 9, 144, 255}

StepDone == lastOp = "step"
StepOk == lastOp = "step" /\ outcome = "ok"
LoadOk == lastOp = "load" /\ outcome = "ok"

\* The bytes the last step found at pc, pc + 1, pc + 2 (when they exist)
HasByte(k) == before.pc + k <= 255 /\ InBounds(before.memory, before.pc + k)
ByteAt(k) == VecGet(before.memory, before.pc + k)

\* C1: a step on any opcode other than Jmp and Hlt leaves pc at its prior
\* value plus the encoded length of the instruction, 1 + operand count.
C1_PcAdvancesByLength ==
    (StepOk /\ decoded.opcode_type \notin {"Jmp", "Hlt"})
        => pc = before.pc + 1 + decoded.argument_count

\* C2: a step on Jmp (bytes 0x05, t) sets pc to exactly t.
C2_JmpSetsPc ==
    (StepDone /\ HasByte(0) /\ HasByte(1) /\ ByteAt(0) = 5)
        => (outcome = "ok" /\ pc = ByteAt(1))

\* C3: a step on Mov (bytes 0x06, d, v) with d in 0..7 and any byte v sets
\* registers[d] to v.
C3_MovSetsRegister ==
    (StepDone /\ HasByte(0) /\ HasByte(1) /\ HasByte(2)
       /\ ByteAt(0) = 6 /\ ByteAt(1) \in RegIndex)
        => (outcome = "ok" /\ registers[ByteAt(1)] = ByteAt(2))

\* C4: a step on Add, Sub or Mul with destination register d and operand
\* byte v leaves registers[d] at (r+v), (r-v) or (r*v) mod 256, a step on Inc
\* leaves it at (r+1) mod 256, and the step never aborts on overflow.
C4_ArithmeticWraps ==
    (StepDone /\ HasByte(0) /\ HasByte(1) /\ ByteAt(1) \in RegIndex)
        => LET d == ByteAt(1)
               r == before.registers[d]
               v == ByteAt(2)
           IN  /\ (ByteAt(0) = 7)
                    => (outcome = "ok" /\ registers[d] = (r + 1) % 256)
               /\ (ByteAt(0) = 3 /\ HasByte(2))
                    => (outcome = "ok" /\ registers[d] = (r + v) % 256)
               /\ (ByteAt(0) = 4 /\ HasByte(2))
                    => (outcome = "ok" /\ registers[d] = (r - v + 256) % 256)
               /\ (ByteAt(0) = 9 /\ HasByte(2))
                    => (outcome = "ok" /\ registers[d] = (r * v) % 256)

\* C5: a step on Div whose second operand byte is 0 ends in a division-by-zero
\* error that is neither a silent success nor a crash, and the destination
\* register keeps its value.
C5_DivByZeroIsAnError ==
    (StepDone /\ HasByte(0) /\ HasByte(1) /\ HasByte(2)
       /\ ByteAt(0) = 8 /\ ByteAt(1) \in RegIndex /\ ByteAt(2) = 0)
        => /\ outcome # "ok"
           /\ ~Panicked
           /\ registers[ByteAt(1)] = before.registers[ByteAt(1)]

\* A step from the current state, were the byte at pc the byte b
StepOnByte(b) ==
    StepResult([Snapshot EXCEPT !.memory = VecSet(memory, pc, b)],
               overflow_checks)

\* C6: a byte at pc outside the table decodes to Nop with zero operands, and
\* the step leaves the eight registers and every memory cell unchanged.
\* The first conjunct is about the steps the runs take; the second takes
\* every byte of 0..255 outside the table through a step from the state
\* after construction.
C6_UnknownByteIsNop ==
    /\ (StepDone /\ HasByte(0) /\ ByteAt(0) \notin TableBytes)
          => /\ decoded.opcode_type = "Nop"
             /\ decoded.argument_count = 0
             /\ decoded.arg1 = NoArg /\ decoded.arg2 = NoArg
             /\ registers = before.registers
             /\ memory = before.memory
    /\ (lastOp = "none")
          => \A b \in Byte \ TableBytes :
               /\ StepOnByte(b).opcode.opcode_type = "Nop"
               /\ StepOnByte(b).opcode.argument_count = 0
               /\ StepOnByte(b).effect.registers = registers
               /\ StepOnByte(b).effect.memory = VecSet(memory, pc, b)

C6_Witness ==
    /\ StepOk /\ HasByte(0) /\ ByteAt(0) = 10
    /\ \E i \in RegIndex : before.registers[i] # 0
    /\ before.memory.len > 1

\* C7: once a step has executed Hlt, every later step leaves registers, pc,
\* general memory and video memory unchanged.
C7_HaltedStaysHalted ==
    (hlt_executed /\ StepDone)
        => /\ registers = before.registers
           /\ pc = before.pc
           /\ memory = before.memory
           /\ video_memory = before.video_memory

\* C8: after a load of B that follows a load of A, memory holds exactly the
\* bytes of B from address 0: its length is that of B, and no cell holds
\* anything else.
C8_LoadReplacesMemory ==
    LoadOk
        => /\ memory.len = Len(loaded)
           /\ DOMAIN memory.data \subseteq 0 .. (Len(loaded) - 1)
           /\ \A i \in 1 .. Len(loaded) : VecGet(memory, i - 1) = loaded[i]

C8_Witness ==
    /\ LoadOk /\ loads = 2 /\ shorter
    /\ Len(loaded) = 2 /\ memory.len = 2

\* C9: a successful load of an n-byte program places byte i at address i for
\* every i < n and returns n.
C9_LoadCopiesAndCounts ==
    LoadOk
        => /\ ret = Len(loaded)
           /\ \A i \in 0 .. (Len(loaded) - 1) :
                InBounds(memory, i) /\ VecGet(memory, i) = loaded[i + 1]

C9_Witness ==
    /\ LoadOk /\ Len(loaded) = 3 /\ ret = 3
    /\ VecGet(memory, 0) = 6 /\ VecGet(memory, 2) = 255

\* C10: general memory has at least 256 cells in every reachable state, so no
\* fetch at pc, pc + 1 or pc + 2 indexes past its end.
C10_MemoryCoversAddressSpace ==
    memory.len >= 256 /\ outcome # "panic_index"

\* C11: a load that fails with an I/O error, at the open or at a read, returns
\* the error to the caller and leaves general memory as it was before the call.
C11_FailedLoadChangesNothing ==
    (lastOp = "load" /\ outcome # "ok")
        => (outcome = "io_error" /\ memory = before.memory)

\* The opcode bytes whose first operand must be a register:
\* Load, Add, Sub, Mov, Inc, Div, Mul
RegisterFirstBytes == {1, 3, 4, 6, 7, 8, 9}

\* C12: a step on an opcode whose first operand must be a register, with a
\* first operand byte outside 0..7, ends in an invalid-register error that is
\* neither a silent success nor a crash, and touches no register or cell.
C12_InvalidRegisterIsAnError ==
    (StepDone /\ HasByte(0) /\ HasByte(1)
       /\ ByteAt(0) \in RegisterFirstBytes /\ ByteAt(1) \notin RegIndex)
        => /\ outcome # "ok"
           /\ ~Panicked
           /\ registers = before.registers
           /\ memory = before.memory

\* C13: a step on Load (bytes 0x01, d, a) with d in 0..7 sets registers[d] to
\* the value of memory cell a.
C13_LoadReadsMemory ==
    (StepDone /\ HasByte(0) /\ HasByte(1) /\ HasByte(2)
       /\ ByteAt(0) = 1 /\ ByteAt(1) \in RegIndex
       /\ InBounds(before.memory, ByteAt(2)))
        => /\ outcome = "ok"
           /\ registers[ByteAt(1)] = VecGet(before.memory, ByteAt(2))

\* C14: a step on Store (bytes 0x02, a, s) with s in 0..7 sets memory cell a
\* to registers[s] and leaves every other cell unchanged.
C14_StoreWritesMemory ==
    (StepDone /\ HasByte(0) /\ HasByte(1) /\ HasByte(2)
       /\ ByteAt(0) = 2 /\ ByteAt(2) \in RegIndex
       /\ InBounds(before.memory, ByteAt(1)))
        => /\ outcome = "ok"
           /\ memory = VecSet(before.memory, ByteAt(1),
                              before.registers[ByteAt(2)])

\* C15: create_opcode changes nothing: pc, sp, flags, the registers, general
\* memory and video memory are the same when it returns as when it was called.
C15_DecodeChangesNothing ==
    StepDone
        => /\ after_decode.pc = before.pc
           /\ after_decode.sp = before.sp
           /\ after_decode.flags = before.flags
           /\ after_decode.registers = before.registers
           /\ after_decode.memory = before.memory
           /\ after_decode.video_memory = before.video_memory

C15_Witness ==
    /\ StepOk /\ decoded.argument_count = 2
    /\ IsReg(decoded.arg1) /\ IsAddr(decoded.arg2)
    /\ registers # before.registers

\* C16: sp and flags hold their initial value 0 in every reachable state.
C16_SpAndFlagsStayZero == sp = 0 /\ flags = 0

C16_Witness ==
    /\ StepOk /\ steps = 2
    /\ decoded.opcode_type \in {"Add", "Sub", "Mul"}
    /\ registers # before.registers
    /\ sp = 0 /\ flags = 0

\* C17: the length of video_memory is the one set at construction in every
\* reachable state.
C17_VideoMemoryLengthFixed == video_memory.len = VIDEO_MEMORY

C17_Witness ==
    /\ StepOk /\ loads = 2 /\ decoded.opcode_type = "Store"
    /\ video_memory.len = VIDEO_MEMORY

\* C19: a step changes at most one register, the one indexed by the first
\* operand byte of the instruction; the seven others keep their values.
C19_OnlyFirstOperandRegisterChanges ==
    StepDone
        => \A i \in RegIndex :
             (registers[i] # before.registers[i])
                => (HasByte(1) /\ ByteAt(1) = i)

C19_Witness ==
    /\ StepOk /\ HasByte(1) /\ ByteAt(1) = 7
    /\ registers[7] # before.registers[7]
    /\ before.registers[0] # 0
    /\ registers[0] = before.registers[0]

\* C20: pc is 0 in every reachable state, so every step fetches and executes
\* the instruction at address 0.
C20_PcStaysZero ==
    /\ pc = 0
    /\ StepDone => before.pc = 0

C20_Witness ==
    /\ StepOk /\ decoded.opcode_type = "Jmp"
    /\ HasByte(1) /\ ByteAt(1) = 8
    /\ steps = 2 /\ pc = 0

\* C18: App::render given a video buffer whose length differs from the
\* frame's, shorter or longer, reports the size mismatch and returns without
\* crashing and without writing to the frame; a buffer of exactly the frame's
\* length is copied to the frame.
C18_SizeMismatchIsReported ==
    (render_outcome \notin {"none", "no_pixels"})
        => /\ (Len(app_video_memory) # Len(frame_before))
                => (render_outcome = "size_error"
                      /\ app_pixels.frame = frame_before)
           /\ (Len(app_video_memory) = Len(frame_before))
                => app_pixels.frame = app_video_memory

====
